---- MODULE Spec2Model ----
(***************************************************************************)
(* Model of the XML feed refresh monitor (src/xml.py): workers of one or   *)
(* more runs execute process_feed concurrently against two shared MongoDB  *)
(* collections, the history collection and the lock collection.            *)
(*                                                                         *)
(* Time is counted in minutes.  A Python datetime is a record              *)
(* [t |-> minutes, aware |-> has tzinfo]; None is the empty sequence and   *)
(* a present optional value x is <<x>>.  A stored (BSON) datetime is the   *)
(* bare UTC instant.  A calendar date "%Y-%m-%d" is the day number.        *)
(***************************************************************************)
EXTENDS Integers, Sequences, FiniteSets, TLC

\* ---------------------------------------------------------------- bounds
NumWorkers == 2
NumFeeds == 2
NumLM == 2
MaxTasks == 3
MaxTicks == 2
MaxFails == 1
MaxWall == 1

\* ------------------------------------------------------ program constants
TTL == 10
IST_OFFSET == 330
DayLen == 1440

Workers == 1..NumWorkers
Feeds == 1..NumFeeds
None == << >>
Some(x) == <<x>>

VARIABLES
  clock,         \* wall clock (minutes), read by utc_now()
  ticks,         \* number of clock advances so far
  feedLM,        \* feedLM[f]: instant the feed's server reports as Last-Modified
  history,       \* feed_timings_history: _id -> document
  locks,         \* feed_update_lock: _id -> lease document
  pc,            \* pc[w]: position of worker w inside process_feed
  feed,          \* feed[w]: employerId of the feed worker w is processing
  last_mod_utc,  \* process_feed local: result of fetch_last_modified
  now_utc,       \* process_feed local: result of utc_now() at line 97
  doc,           \* process_feed local: result of history.find_one
  lock_now,      \* acquire_lock local: now
  granted,       \* acquire_lock's return value in this task (FALSE before)
  outcome,       \* how the task of worker w ended ("none" while running)
  ops,           \* ops[w][o]: store/network operations of the running task
  rivals,        \* rivals[w]: workers whose acquire_lock overlapped w's call
  lastEvent,     \* lastEvent[f]: the event appended by the latest write for f
  started,       \* number of process_feed tasks started so far
  blocked,       \* blocked[w]: w's acquire_lock began under an unexpired lease
  writes,        \* writes[f]: history writes stored for f (sequential runs)
  fails,         \* number of store operations that raised so far
  env,           \* environment of a run of main(): MONGO_URI set, store reachable
  runPc,         \* position of main()
  catalog,       \* main's feeds: the documents loaded from feed_timings
  submitted,     \* number of catalog entries handed to executor.submit
  queue,         \* submitted catalog entries no pool thread has taken yet
  entry,         \* entry[w]: catalog entry worker w is processing
  runlog,        \* runlog[i]: what the run did for catalog entry i
  raw_in,        \* raw_in[w]: a Last-Modified header value
  norm_out       \* norm_out[w]: the result of normalize_last_modified(raw_in[w])

taskVars == <<clock, ticks, feedLM, history, locks, pc, feed, last_mod_utc,
              now_utc, doc, lock_now, granted, outcome, ops, rivals, lastEvent,
              started>>

runVars == <<env, runPc, catalog, submitted, queue, entry, runlog>>

normVars == <<raw_in, norm_out>>

vars == <<clock, ticks, feedLM, history, locks, pc, feed, last_mod_utc, now_utc,
          doc, lock_now, granted, outcome, ops, rivals, lastEvent, started,
          blocked, writes, fails, env, runPc, catalog, submitted, queue, entry,
          runlog, raw_in, norm_out>>

\* ------------------------------------------------------------ time helpers
utc_now == [t |-> clock, aware |-> TRUE]

to_ist(dt_utc) == [t |-> dt_utc.t + IST_OFFSET, aware |-> dt_utc.aware]

\* now_utc.strftime("%Y-%m-%d")
DateOf(dt) == dt.t \div DayLen

\* datetime.__eq__: a naive and an aware datetime are never equal.
PyEq(a, b) == a.aware = b.aware /\ a.t = b.t

\* pymongo encodes a datetime as the UTC instant (a naive one is taken as UTC).
Encode(dt) == dt.t

\* MongoClient(MONGO_URI) is built without tz_aware, so a stored datetime is
\* read back as a naive datetime.
Decode(t) == [t |-> t, aware |-> FALSE]

\* ------------------------------------------------------- Last-Modified probe
TZOffsets == {0, 60, -300}

\* The answers requests.head can give for a feed whose refresh instant is T.
Responses(T) ==
  {[kind |-> "error", wall |-> 0, off |-> 0, tz |-> FALSE],
   [kind |-> "noheader", wall |-> 0, off |-> 0, tz |-> FALSE],
   [kind |-> "garbage", wall |-> 0, off |-> 0, tz |-> FALSE],
   [kind |-> "date", wall |-> T, off |-> 0, tz |-> FALSE]}
  \cup {[kind |-> "date", wall |-> T + o, off |-> o, tz |-> TRUE] : o \in TZOffsets}

\* Mutant of normalize_last_modified: the offset is dropped, not converted.
normalize_keep_wall(raw) ==
  IF raw.kind # "date" THEN None
  ELSE Some([t |-> raw.wall, aware |-> TRUE])

\* parsedate_to_datetime raises on a value that is no date (None results);
\* an offset is converted to UTC, a value without one is taken as UTC.  The
\* parsed value has whole seconds, so replace(microsecond=0) cuts nothing.
normalize_last_modified(raw) ==
  IF raw.kind # "date" THEN None
  ELSE IF raw.tz THEN Some([t |-> raw.wall - raw.off, aware |-> TRUE])
       ELSE Some([t |-> raw.wall, aware |-> TRUE])

fetch_last_modified(resp) ==
  IF resp.kind \in {"error", "noheader"} THEN None
  ELSE normalize_last_modified(resp)

\* ------------------------------------------------------------- documents
\* One entry of feed_timings (the catalog): employerId, employerName, xml_url.
FeedSource(f) ==
  [employerId |-> f, employerName |-> <<"name", f>>, xml_url |-> <<"url", f>>]

EncodeEvent(e) ==
  [checked_utc |-> Encode(e.checked_utc),
   checked_ist |-> Encode(e.checked_ist),
   xml_last_updated_utc |-> Encode(e.xml_last_updated_utc),
   xml_last_updated_ist |-> Encode(e.xml_last_updated_ist)]

DecodeEvent(e) ==
  [checked_utc |-> Decode(e.checked_utc),
   checked_ist |-> Decode(e.checked_ist),
   xml_last_updated_utc |-> Decode(e.xml_last_updated_utc),
   xml_last_updated_ist |-> Decode(e.xml_last_updated_ist)]

EncodeLog(log) ==
  [i \in 1..Len(log) |->
     [date |-> log[i].date, count |-> log[i].count,
      times |-> [j \in 1..Len(log[i].times) |-> EncodeEvent(log[i].times[j])]]]

DecodeLog(log) ==
  [i \in 1..Len(log) |->
     [date |-> log[i].date, count |-> log[i].count,
      times |-> [j \in 1..Len(log[i].times) |-> DecodeEvent(log[i].times[j])]]]

\* What find_one hands to Python for a stored history document.
DecodeDoc(r) ==
  [r EXCEPT !.xml_last_updated_utc = Decode(@),
            !.xml_last_updated_ist = Decode(@),
            !.refresh_log = DecodeLog(@)]

\* history.find_one({"_id": employerId})
find_one(coll, id) ==
  IF id \in DOMAIN coll THEN Some(DecodeDoc(coll[id])) ELSE None

\* The new_event dictionary (lines 121-127 and 154-159).
NewEvent(now, lm) ==
  [checked_utc |-> now,
   checked_ist |-> to_ist(now),
   xml_last_updated_utc |-> lm,
   xml_last_updated_ist |-> to_ist(lm)]

\* Mutant of FirstDocument: the bucket is dated by the feed's timestamp.
FirstDocumentDatedByFeed(src, lm, now) ==
  [id |-> src.employerId,
   employerId |-> src.employerId,
   employerName |-> src.employerName,
   xml_url |-> src.xml_url,
   refresh_count |-> 1,
   xml_last_updated_utc |-> lm,
   xml_last_updated_ist |-> to_ist(lm),
   refresh_log |-> <<[date |-> DateOf(lm), count |-> 1,
                      times |-> <<NewEvent(now, lm)>>]>>]

\* The document given to insert_one for a first observation.
FirstDocument(src, lm, now) ==
  [id |-> src.employerId,
   employerId |-> src.employerId,
   employerName |-> src.employerName,
   xml_url |-> src.xml_url,
   refresh_count |-> 1,
   xml_last_updated_utc |-> lm,
   xml_last_updated_ist |-> to_ist(lm),
   refresh_log |-> <<[date |-> DateOf(now), count |-> 1,
                      times |-> <<NewEvent(now, lm)>>]>>]

\* The stored form of a document given to insert_one.
EncodeDoc(d) ==
  [d EXCEPT !.xml_last_updated_utc = Encode(@),
            !.xml_last_updated_ist = Encode(@),
            !.refresh_log = EncodeLog(@)]

\* next((d for d in daily if d["date"] == today), None), as an index; 0 is None.
TodayEntry(daily, today) ==
  LET S == {i \in 1..Len(daily) : daily[i].date = today}
  IN IF S = {} THEN 0 ELSE CHOOSE i \in S : \A j \in S : i <= j

\* Mutant of AppendEvent: today's bucket gets the event but not the count.
AppendEventNoCount(daily, today, ev) ==
  LET i == TodayEntry(daily, today)
  IN IF i # 0
     THEN [daily EXCEPT ![i] = [date |-> @.date, count |-> @.count,
                                times |-> Append(@.times, ev)]]
     ELSE Append(daily, [date |-> today, count |-> 1, times |-> <<ev>>])

\* Lines 161-169: append the event to today's bucket, or add a bucket.
AppendEvent(daily, today, ev) ==
  LET i == TodayEntry(daily, today)
  IN IF i # 0
     THEN [daily EXCEPT ![i] = [date |-> @.date, count |-> @.count + 1,
                                times |-> Append(@.times, ev)]]
     ELSE Append(daily, [date |-> today, count |-> 1, times |-> <<ev>>])

\* Mutant of UpdateSet: the record's own timestamp is not replaced.
UpdateSetStaleTimestamp(d, lm, now) ==
  [refresh_count |-> d.refresh_count + 1,
   xml_last_updated_utc |-> d.xml_last_updated_utc,
   xml_last_updated_ist |-> d.xml_last_updated_ist,
   refresh_log |-> AppendEvent(d.refresh_log, DateOf(now), NewEvent(now, lm))]

\* Mutant of UpdateSet: refresh_count is written back as it was read.
UpdateSetNoIncrement(d, lm, now) ==
  [refresh_count |-> d.refresh_count,
   xml_last_updated_utc |-> lm,
   xml_last_updated_ist |-> to_ist(lm),
   refresh_log |-> AppendEvent(d.refresh_log, DateOf(now), NewEvent(now, lm))]

\* The "$set" document of update_one, computed from the document read at
\* line 101 (lines 149-180).
UpdateSet(d, lm, now) ==
  [refresh_count |-> d.refresh_count + 1,
   xml_last_updated_utc |-> lm,
   xml_last_updated_ist |-> to_ist(lm),
   refresh_log |-> AppendEvent(d.refresh_log, DateOf(now), NewEvent(now, lm))]

\* update_one's effect on the stored document: the four fields are replaced.
ApplySet(r, set) ==
  [r EXCEPT !.refresh_count = set.refresh_count,
            !.xml_last_updated_utc = Encode(set.xml_last_updated_utc),
            !.xml_last_updated_ist = Encode(set.xml_last_updated_ist),
            !.refresh_log = EncodeLog(set.refresh_log)]

\* ------------------------------------------------------- change detection
\* Lines 104, 134 and 137: "first", "unchanged" or "changed".
Classify(d, lm) ==
  IF d = None THEN "first"
  ELSE IF PyEq(d[1].xml_last_updated_utc, lm) THEN "unchanged"
  ELSE "changed"

\* ------------------------------------------------------------------ lease
\* Mutant of Expired: "$lte" for "$lt", a lease exactly 10 minutes old goes.
ExpiredInclusive(lease, now) == lease.timestamp <= Encode(now) - TTL

\* The filter of delete_many: {"timestamp": {"$lt": now - 10 minutes}}.
Expired(lease, now) == lease.timestamp < Encode(now) - TTL

\* Mutant of delete_many: expired leases are never removed.
delete_many_nothing(coll, now) == coll

\* lock_col.delete_many(...): the collection without its expired leases.
delete_many(coll, now) ==
  [g \in {x \in DOMAIN coll : ~Expired(coll[x], now)} |-> coll[g]]

\* The document "$setOnInsert" writes when the upsert inserts.
Lease(id, now, lm) ==
  [id |-> id, timestamp |-> Encode(now), last_mod_utc |-> Encode(lm)]

\* Mutant of find_one_and_update: "$set" for "$setOnInsert", every call
\* rewrites the lease.
find_one_and_update_set(coll, id, now, lm) ==
  (id :> Lease(id, now, lm)) @@ [g \in DOMAIN coll \ {id} |-> coll[g]]

\* find_one_and_update(..., upsert=True, return_document=BEFORE): the
\* collection afterwards; an existing lease is left as it is.
find_one_and_update(coll, id, now, lm) ==
  IF id \in DOMAIN coll THEN coll ELSE (id :> Lease(id, now, lm)) @@ coll

\* "return result is None", result being the document before the upsert.
LockAcquired(coll, id) == id \notin DOMAIN coll

\* ------------------------------------------------------------ state machine
NoOps == [probe |-> 0, find |-> 0, acquire |-> 0, purge |-> 0, upsert |-> 0,
          write |-> 0]

Epoch == [t |-> 0, aware |-> TRUE]

InAcquire == {"lock_now", "purge", "upsert"}

\* The environment of a run of main(): is MONGO_URI set (line 9), does the
\* store answer (line 193).
Envs == [mongo_uri : BOOLEAN, reachable : BOOLEAN]

DefaultEnv == [mongo_uri |-> TRUE, reachable |-> TRUE]

\* raw = None: the header is missing.
Missing == [kind |-> "noheader", wall |-> 0, off |-> 0, zone |-> "none", tz |-> FALSE]

\* normalize_last_modified has not been applied yet.
Pending == [done |-> FALSE, value |-> None]

InitTasks ==
  /\ clock = 0
  /\ ticks = 0
  /\ feedLM = [f \in Feeds |-> 1]
  /\ history = << >>
  /\ locks = << >>
  /\ pc = [w \in Workers |-> "idle"]
  /\ feed = [w \in Workers |-> 1]
  /\ last_mod_utc = [w \in Workers |-> None]
  /\ now_utc = [w \in Workers |-> Epoch]
  /\ doc = [w \in Workers |-> None]
  /\ lock_now = [w \in Workers |-> Epoch]
  /\ granted = [w \in Workers |-> FALSE]
  /\ outcome = [w \in Workers |-> "none"]
  /\ ops = [w \in Workers |-> NoOps]
  /\ rivals = [w \in Workers |-> {}]
  /\ lastEvent = << >>
  /\ started = 0
  /\ blocked = [w \in Workers |-> FALSE]
  /\ writes = [f \in Feeds |-> 0]
  /\ fails = 0

\* main() has not run yet (line 185).
InitRun(e) ==
  /\ env = e
  /\ runPc = "start"
  /\ catalog = << >>
  /\ submitted = 0
  /\ queue = {}
  /\ entry = [w \in Workers |-> 0]
  /\ runlog = << >>

InitNorm(r) ==
  /\ raw_in = r
  /\ norm_out = [w \in Workers |-> Pending]

Init ==
  /\ InitTasks
  /\ InitRun(DefaultEnv)
  /\ InitNorm([w \in Workers |-> Missing])

\* Time passes: not at all between two steps, by exactly the TTL, by just
\* more than the TTL, or by a day.  The clock is observed only by utc_now()
\* (lines 56 and 97), so it is advanced right before such a read: an advance
\* at any other moment is the same advance seen by the next read.
TickSteps == {TTL, TTL + 1, DayLen}

Tick(d) ==
  /\ ticks < MaxTicks
  /\ \E w \in Workers : pc[w] \in {"clock", "lock_now"}
  /\ clock' = clock + d
  /\ ticks' = ticks + 1
  /\ UNCHANGED <<feedLM, history, locks, pc, feed, last_mod_utc, now_utc, doc,
                 lock_now, granted, outcome, ops, rivals, lastEvent, started>>

\* The monitored server publishes a new version of feed f.  Only the probe
\* (line 90) observes it, so the refresh is taken right before a probe of f.
FeedRefresh(f) ==
  /\ feedLM[f] < NumLM
  /\ \E w \in Workers : pc[w] = "probe" /\ feed[w] = f
  /\ feedLM' = [feedLM EXCEPT ![f] = @ + 1]
  /\ UNCHANGED <<clock, ticks, history, locks, pc, feed, last_mod_utc, now_utc,
                 doc, lock_now, granted, outcome, ops, rivals, lastEvent, started>>

\* executor.submit(process_feed, feed, history, lock_col): a pool thread of
\* some run of main() takes the task for feed f.
Start(w, f) ==
  /\ pc[w] \in {"idle", "done"}
  /\ started < MaxTasks
  /\ started' = started + 1
  /\ pc' = [pc EXCEPT ![w] = "probe"]
  /\ feed' = [feed EXCEPT ![w] = f]
  /\ granted' = [granted EXCEPT ![w] = FALSE]
  /\ outcome' = [outcome EXCEPT ![w] = "none"]
  /\ ops' = [ops EXCEPT ![w] = NoOps]
  /\ rivals' = [v \in Workers |-> IF v = w THEN {} ELSE rivals[v] \ {w}]
  /\ UNCHANGED <<clock, ticks, feedLM, history, locks, lastEvent, last_mod_utc,
                 now_utc, doc, lock_now>>

\* process_feed returns (or ends with an exception): its locals are gone.
Return(w) ==
  /\ last_mod_utc' = [last_mod_utc EXCEPT ![w] = None]
  /\ now_utc' = [now_utc EXCEPT ![w] = Epoch]
  /\ doc' = [doc EXCEPT ![w] = None]
  /\ lock_now' = [lock_now EXCEPT ![w] = Epoch]

\* Mutant of AfterProbe: the test for None is missing.
AfterProbeNoCheck(lm) == "clock"

\* Lines 91-93: where process_feed goes after the probe.
AfterProbe(lm) == IF lm = None THEN "done" ELSE "clock"

\* Lines 90-93: last_mod_utc = fetch_last_modified(xml_url).
Probe(w) ==
  /\ pc[w] = "probe"
  /\ \E resp \in Responses(feedLM[feed[w]]) :
       LET lm == fetch_last_modified(resp)
       IN /\ last_mod_utc' = [last_mod_utc EXCEPT ![w] = lm]
          /\ pc' = [pc EXCEPT ![w] = AfterProbe(lm)]
          /\ outcome' = [outcome EXCEPT ![w] =
                           IF AfterProbe(lm) = "done" THEN "unavailable" ELSE @]
  /\ ops' = [ops EXCEPT ![w].probe = @ + 1]
  /\ UNCHANGED <<clock, ticks, feedLM, history, locks, feed, now_utc, doc,
                 lock_now, granted, rivals, lastEvent, started>>

\* Lines 95-99: now_utc = utc_now().
ReadClock(w) ==
  /\ pc[w] = "clock"
  /\ now_utc' = [now_utc EXCEPT ![w] = utc_now]
  /\ pc' = [pc EXCEPT ![w] = "find"]
  /\ UNCHANGED <<clock, ticks, feedLM, history, locks, feed, last_mod_utc, doc,
                 lock_now, granted, outcome, ops, rivals, lastEvent, started>>

\* Lines 104-144: where process_feed goes for each classification.
AfterClassify(c) == IF c = "unchanged" THEN "done" ELSE "lock_now"

\* Lines 101-139: doc = history.find_one(...), then the classification.
FindDoc(w) ==
  /\ pc[w] = "find"
  /\ LET d == find_one(history, feed[w])
         c == Classify(d, last_mod_utc[w][1])
     IN /\ pc' = [pc EXCEPT ![w] = AfterClassify(c)]
        /\ IF AfterClassify(c) = "done"
           THEN /\ outcome' = [outcome EXCEPT ![w] = "unchanged"]
                /\ Return(w)
           ELSE /\ doc' = [doc EXCEPT ![w] = d]
                /\ UNCHANGED <<outcome, last_mod_utc, now_utc, lock_now>>
  /\ ops' = [ops EXCEPT ![w].find = @ + 1]
  /\ UNCHANGED <<clock, ticks, feedLM, history, locks, feed, granted, rivals,
                 lastEvent, started>>

\* acquire_lock, lines 56-57: now = utc_now().
LockNow(w) ==
  /\ pc[w] = "lock_now"
  /\ lock_now' = [lock_now EXCEPT ![w] = utc_now]
  /\ pc' = [pc EXCEPT ![w] = "purge"]
  /\ ops' = [ops EXCEPT ![w].acquire = @ + 1]
  /\ LET R == {v \in Workers \ {w} : pc[v] \in InAcquire /\ feed[v] = feed[w]}
     IN rivals' = [v \in Workers |->
                     IF v = w THEN R
                     ELSE IF v \in R THEN rivals[v] \cup {w} ELSE rivals[v]]
  /\ UNCHANGED <<clock, ticks, feedLM, history, locks, feed, last_mod_utc,
                 now_utc, doc, granted, outcome, lastEvent, started>>

\* acquire_lock, line 60: remove expired locks.
Purge(w) ==
  /\ pc[w] = "purge"
  /\ locks' = delete_many(locks, lock_now[w])
  /\ pc' = [pc EXCEPT ![w] = "upsert"]
  /\ ops' = [ops EXCEPT ![w].purge = @ + 1]
  /\ UNCHANGED <<clock, ticks, feedLM, history, feed, last_mod_utc, now_utc,
                 doc, lock_now, granted, outcome, rivals, lastEvent, started>>

\* Mutant of Upsert: a refused caller calls acquire_lock again.
UpsertRetry(w) ==
  /\ pc[w] = "upsert"
  /\ LET got == LockAcquired(locks, feed[w])
     IN /\ granted' = [granted EXCEPT ![w] = got]
        /\ pc' = [pc EXCEPT ![w] = IF got THEN "write" ELSE "lock_now"]
        /\ UNCHANGED <<outcome, last_mod_utc, now_utc, doc, lock_now>>
  /\ locks' = find_one_and_update(locks, feed[w], lock_now[w], last_mod_utc[w][1])
  /\ ops' = [ops EXCEPT ![w].upsert = @ + 1]
  /\ UNCHANGED <<clock, ticks, feedLM, history, feed, rivals, lastEvent, started>>

\* acquire_lock, lines 63-78, and the caller's test of its result
\* (lines 105-107 and 142-144).
Upsert(w) ==
  /\ pc[w] = "upsert"
  /\ LET got == LockAcquired(locks, feed[w])
     IN /\ granted' = [granted EXCEPT ![w] = got]
        /\ pc' = [pc EXCEPT ![w] = IF got THEN "write" ELSE "done"]
        /\ IF got
           THEN UNCHANGED <<outcome, last_mod_utc, now_utc, doc, lock_now>>
           ELSE /\ outcome' = [outcome EXCEPT ![w] = "skipped"]
                /\ Return(w)
  /\ locks' = find_one_and_update(locks, feed[w], lock_now[w], last_mod_utc[w][1])
  /\ ops' = [ops EXCEPT ![w].upsert = @ + 1]
  /\ UNCHANGED <<clock, ticks, feedLM, history, feed, rivals, lastEvent, started>>

\* Mutant of Write: the first observation is stored with a replacing write,
\* so a record that exists by now is overwritten.
WriteReplace(w) ==
  /\ pc[w] = "write"
  /\ LET f == feed[w]
         lm == last_mod_utc[w][1]
         ev == EncodeEvent(NewEvent(now_utc[w], lm))
     IN IF doc[w] = None
        THEN /\ history' =
                  (f :> EncodeDoc(FirstDocument(FeedSource(f), lm, now_utc[w])))
                  @@ history
             /\ lastEvent' = (f :> ev) @@ lastEvent
             /\ outcome' = [outcome EXCEPT ![w] = "inserted"]
        ELSE IF f \in DOMAIN history
             THEN /\ history' =
                       [history EXCEPT ![f] =
                          ApplySet(@, UpdateSet(doc[w][1], lm, now_utc[w]))]
                  /\ lastEvent' = [lastEvent EXCEPT ![f] = ev]
                  /\ outcome' = [outcome EXCEPT ![w] = "updated"]
             ELSE /\ outcome' = [outcome EXCEPT ![w] = "updated"]
                  /\ UNCHANGED <<history, lastEvent>>
  /\ pc' = [pc EXCEPT ![w] = "done"]
  /\ Return(w)
  /\ ops' = [ops EXCEPT ![w].write = @ + 1]
  /\ UNCHANGED <<clock, ticks, feedLM, locks, feed, granted, rivals, started>>

\* Lines 109-132 (insert_one) when no document was found at line 101, lines
\* 146-181 (update_one) otherwise.  insert_one on an _id that exists by now
\* raises DuplicateKeyError and stores nothing; the task ends with the error.
Write(w) ==
  /\ pc[w] = "write"
  /\ LET f == feed[w]
         lm == last_mod_utc[w][1]
         ev == EncodeEvent(NewEvent(now_utc[w], lm))
     IN IF doc[w] = None
        THEN IF f \in DOMAIN history
             THEN /\ outcome' = [outcome EXCEPT ![w] = "error"]
                  /\ UNCHANGED <<history, lastEvent>>
             ELSE /\ history' =
                       (f :> EncodeDoc(FirstDocument(FeedSource(f), lm, now_utc[w])))
                       @@ history
                  /\ lastEvent' = (f :> ev) @@ lastEvent
                  /\ outcome' = [outcome EXCEPT ![w] = "inserted"]
        ELSE IF f \in DOMAIN history
             THEN /\ history' =
                       [history EXCEPT ![f] =
                          ApplySet(@, UpdateSet(doc[w][1], lm, now_utc[w]))]
                  /\ lastEvent' = [lastEvent EXCEPT ![f] = ev]
                  /\ outcome' = [outcome EXCEPT ![w] = "updated"]
             ELSE /\ outcome' = [outcome EXCEPT ![w] = "updated"]
                  /\ UNCHANGED <<history, lastEvent>>
  /\ pc' = [pc EXCEPT ![w] = "done"]
  /\ Return(w)
  /\ ops' = [ops EXCEPT ![w].write = @ + 1]
  /\ UNCHANGED <<clock, ticks, feedLM, locks, feed, granted, rivals, started>>

\* A store operation raises (the server is unreachable, a time-out): the
\* exception leaves process_feed, nothing is stored by the failing call.
StoreSteps == {"find", "purge", "upsert", "write"}

Fail(w) ==
  /\ pc[w] \in StoreSteps
  /\ fails < MaxFails
  /\ fails' = fails + 1
  /\ pc' = [pc EXCEPT ![w] = "done"]
  /\ outcome' = [outcome EXCEPT ![w] = "error"]
  /\ Return(w)
  /\ UNCHANGED <<clock, ticks, feedLM, history, locks, feed, granted, ops,
                 rivals, lastEvent, started>>

\* Is there a lease for id that has not outlived the TTL at instant now.
HeldAt(coll, id, now) ==
  id \in DOMAIN coll /\ Encode(now) < coll[id].timestamp + TTL

\* Bookkeeping of a step of worker w: was a lease in force when acquire_lock
\* began (line 56), and how many history writes were stored (lines 132, 172).
Ghost(w) ==
  /\ blocked' = [blocked EXCEPT ![w] =
                   IF pc[w] \in {"idle", "done"} THEN FALSE
                   ELSE IF pc[w] = "lock_now" THEN HeldAt(locks, feed[w], utc_now)
                   ELSE @]
  /\ writes' = IF pc[w] = "write" /\ outcome'[w] \in {"inserted", "updated"}
               THEN [writes EXCEPT ![feed[w]] = @ + 1]
               ELSE writes

Next ==
  \/ \E d \in TickSteps :
       Tick(d) /\ UNCHANGED <<blocked, writes, fails, runVars, normVars>>
  \/ \E f \in Feeds :
       FeedRefresh(f) /\ UNCHANGED <<blocked, writes, fails, runVars, normVars>>
  \/ \E w \in Workers, f \in Feeds :
       Start(w, f) /\ Ghost(w) /\ UNCHANGED <<fails, runVars, normVars>>
  \/ \E w \in Workers :
       Probe(w) /\ Ghost(w) /\ UNCHANGED <<fails, runVars, normVars>>
  \/ \E w \in Workers :
       ReadClock(w) /\ Ghost(w) /\ UNCHANGED <<fails, runVars, normVars>>
  \/ \E w \in Workers :
       FindDoc(w) /\ Ghost(w) /\ UNCHANGED <<fails, runVars, normVars>>
  \/ \E w \in Workers :
       LockNow(w) /\ Ghost(w) /\ UNCHANGED <<fails, runVars, normVars>>
  \/ \E w \in Workers :
       Purge(w) /\ Ghost(w) /\ UNCHANGED <<fails, runVars, normVars>>
  \/ \E w \in Workers :
       Upsert(w) /\ Ghost(w) /\ UNCHANGED <<fails, runVars, normVars>>
  \/ \E w \in Workers :
       Write(w) /\ Ghost(w) /\ UNCHANGED <<fails, runVars, normVars>>

Spec == Init /\ [][Next]_vars

\* ------------------------------------------- normalize_last_modified alone
\* The zone a date value is written with, and the offset that zone stands
\* for: no zone, a numeric offset, a zone name of RFC 2822 (GMT, EST), another
\* zone name (CET, IST).
Zones ==
  {[zone |-> "none", off |-> 0]}
  \cup {[zone |-> "offset", off |-> o] : o \in TZOffsets}
  \cup {[zone |-> "name", off |-> o] : o \in {0, -300}}
  \cup {[zone |-> "unknown", off |-> o] : o \in {60, 330}}

\* parsedate_to_datetime gives a tzinfo for a numeric offset and for the zone
\* names of RFC 2822; any other zone name is dropped and the result is naive.
ParsedZone(zone) == zone \in {"offset", "name"}

Garbage == [kind |-> "garbage", wall |-> 0, off |-> 0, zone |-> "none", tz |-> FALSE]

\* The values normalize_last_modified is called with (line 25): None, a text
\* that is no date, and the instants 0..MaxWall written in every zone.
RawHeaders ==
  {Missing, Garbage}
  \cup {[kind |-> "date", wall |-> T + z.off, off |-> z.off, zone |-> z.zone,
          tz |-> ParsedZone(z.zone)] : T \in 0..MaxWall, z \in Zones}

\* The instant a date value denotes.
Instant(raw) == raw.wall - raw.off

NormInit ==
  /\ InitTasks
  /\ InitRun(DefaultEnv)
  /\ \E r \in [Workers -> RawHeaders] : InitNorm(r)

\* Lines 25-34: one call of normalize_last_modified.
Normalize(w) ==
  /\ ~norm_out[w].done
  /\ norm_out' = [norm_out EXCEPT ![w] =
                    [done |-> TRUE, value |-> normalize_last_modified(raw_in[w])]]
  /\ UNCHANGED <<taskVars, blocked, writes, fails, runVars, raw_in>>

NormNext == \E w \in Workers : Normalize(w)

NormSpec == NormInit /\ [][NormNext]_vars

\* ------------------------------------------------------- sequential runs
\* The tasks are executed one after another: a single pool thread, each task
\* ended before the next is taken.
SeqWorker == 1

SeqNext ==
  \/ \E d \in TickSteps :
       Tick(d) /\ UNCHANGED <<blocked, writes, fails, runVars, normVars>>
  \/ \E f \in Feeds :
       FeedRefresh(f) /\ UNCHANGED <<blocked, writes, fails, runVars, normVars>>
  \/ \E f \in Feeds :
       Start(SeqWorker, f) /\ Ghost(SeqWorker)
       /\ UNCHANGED <<fails, runVars, normVars>>
  \/ Probe(SeqWorker) /\ Ghost(SeqWorker) /\ UNCHANGED <<fails, runVars, normVars>>
  \/ ReadClock(SeqWorker) /\ Ghost(SeqWorker)
     /\ UNCHANGED <<fails, runVars, normVars>>
  \/ FindDoc(SeqWorker) /\ Ghost(SeqWorker)
     /\ UNCHANGED <<fails, runVars, normVars>>
  \/ LockNow(SeqWorker) /\ Ghost(SeqWorker)
     /\ UNCHANGED <<fails, runVars, normVars>>
  \/ Purge(SeqWorker) /\ Ghost(SeqWorker) /\ UNCHANGED <<fails, runVars, normVars>>
  \/ Upsert(SeqWorker) /\ Ghost(SeqWorker) /\ UNCHANGED <<fails, runVars, normVars>>
  \/ Write(SeqWorker) /\ Ghost(SeqWorker) /\ UNCHANGED <<fails, runVars, normVars>>

SeqSpec == Init /\ [][SeqNext]_vars

\* ------------------------------------------------------- one run of main()
\* What main() can load from feed_timings: any list of feed documents, the
\* same employerId possibly twice.
Catalogs == UNION {[1..n -> Feeds] : n \in 0..NumFeeds}

NoEntry == [starts |-> 0, ops |-> NoOps, outcome |-> "none"]

RunInit ==
  /\ InitTasks
  /\ \E e \in Envs : InitRun(e)
  /\ InitNorm([w \in Workers |-> Missing])

\* Mutant of AfterUriCheck: main() goes on without MONGO_URI.
AfterUriCheckIgnored(uri) == "load"

\* Lines 186-188: "if not MONGO_URI: ... return".
AfterUriCheck(uri) == IF ~uri THEN "nouri" ELSE "load"

MainCheck ==
  /\ runPc = "start"
  /\ runPc' = AfterUriCheck(env.mongo_uri)
  /\ UNCHANGED <<taskVars, blocked, writes, fails, env, catalog, submitted,
                 queue, entry, runlog, normVars>>

\* Line 193: find({}) is the first call that needs the server; when it raises
\* the exception leaves main().
AfterLoad(ok) == IF ok THEN "submit" ELSE "crash"

\* Lines 190-195: feeds = list(db[SOURCE_COLLECTION].find({})).
MainLoad ==
  /\ runPc = "load"
  /\ runPc' = AfterLoad(env.reachable)
  /\ IF AfterLoad(env.reachable) = "submit"
     THEN \E c \in Catalogs :
            /\ catalog' = c
            /\ runlog' = [i \in 1..Len(c) |-> NoEntry]
     ELSE UNCHANGED <<catalog, runlog>>
  /\ UNCHANGED <<taskVars, blocked, writes, fails, env, submitted, queue, entry,
                 normVars>>

\* Lines 200-201: executor.submit for the next feed of the list.
MainSubmit ==
  /\ runPc = "submit"
  /\ submitted < Len(catalog)
  /\ submitted' = submitted + 1
  /\ queue' = queue \cup {submitted + 1}
  /\ UNCHANGED <<taskVars, blocked, writes, fails, env, runPc, catalog, entry,
                 runlog, normVars>>

\* Line 199: leaving the "with" block waits for every submitted task.
MainJoin ==
  /\ runPc = "submit"
  /\ submitted = Len(catalog)
  /\ queue = {}
  /\ \A w \in Workers : pc[w] \in {"idle", "done"}
  /\ runPc' = "exit"
  /\ UNCHANGED <<taskVars, blocked, writes, fails, env, catalog, submitted,
                 queue, entry, runlog, normVars>>

\* A pool thread takes a submitted task.
RunStart(w) ==
  /\ \E i \in queue :
       /\ Start(w, catalog[i])
       /\ entry' = [entry EXCEPT ![w] = i]
       /\ queue' = queue \ {i}
       /\ runlog' = [runlog EXCEPT ![i].starts = @ + 1]
  /\ Ghost(w)
  /\ UNCHANGED <<fails, env, runPc, catalog, submitted, normVars>>

\* Mutant of AfterTaskError: the task's exception is raised in main().
AfterTaskErrorRaised(p) == "crash"

\* Lines 200-201: the Future of submit is dropped, so an exception of the
\* task never reaches main().
AfterTaskError(p) == p

\* A step of the task of worker w, seen from the run.
RunBook(w) ==
  /\ Ghost(w)
  /\ runlog' = [runlog EXCEPT ![entry[w]] =
                  [@ EXCEPT !.ops = ops'[w], !.outcome = outcome'[w]]]
  /\ runPc' = IF outcome'[w] = "error" THEN AfterTaskError(runPc) ELSE runPc
  /\ UNCHANGED <<env, catalog, submitted, queue, entry, normVars>>

RunNext ==
  \/ MainCheck
  \/ MainLoad
  \/ MainSubmit
  \/ MainJoin
  \/ \E d \in TickSteps :
       Tick(d) /\ UNCHANGED <<blocked, writes, fails, runVars, normVars>>
  \/ \E f \in Feeds :
       FeedRefresh(f) /\ UNCHANGED <<blocked, writes, fails, runVars, normVars>>
  \/ \E w \in Workers : RunStart(w)
  \/ \E w \in Workers : Probe(w) /\ RunBook(w) /\ UNCHANGED fails
  \/ \E w \in Workers : ReadClock(w) /\ RunBook(w) /\ UNCHANGED fails
  \/ \E w \in Workers : FindDoc(w) /\ RunBook(w) /\ UNCHANGED fails
  \/ \E w \in Workers : LockNow(w) /\ RunBook(w) /\ UNCHANGED fails
  \/ \E w \in Workers : Purge(w) /\ RunBook(w) /\ UNCHANGED fails
  \/ \E w \in Workers : Upsert(w) /\ RunBook(w) /\ UNCHANGED fails
  \/ \E w \in Workers : Write(w) /\ RunBook(w) /\ UNCHANGED fails
  \/ \E w \in Workers : Fail(w) /\ RunBook(w)

RunSpec == RunInit /\ [][RunNext]_vars

\* main() has returned or ended with an exception.
RunDone == runPc \in {"nouri", "crash", "exit"}

\* ------------------------------------------- the driver is run again and again
\* Runs of main() follow one another without end (the cron schedule) and
\* time advances.  One feed is followed until its record holds the value the
\* server reports; what happens after that moment is the business of the
\* next change.
LiveFeed == 1

Recorded ==
  /\ LiveFeed \in DOMAIN history
  /\ history[LiveFeed].xml_last_updated_utc = feedLM[LiveFeed]

\* Time passes while some lease is still in force; once every lease has
\* outlived the TTL a further advance changes no decision of acquire_lock.
LiveTick(d) ==
  /\ \E g \in DOMAIN locks : ~Expired(locks[g], utc_now)
  /\ \E w \in Workers : pc[w] \in {"clock", "lock_now"}
  /\ clock' = clock + d
  /\ UNCHANGED <<ticks, feedLM, history, locks, pc, feed, last_mod_utc, now_utc,
                 doc, lock_now, granted, outcome, ops, rivals, lastEvent, started>>

\* executor.submit of the next run: a pool thread takes the task of the feed.
LiveStart(w) ==
  /\ pc[w] \in {"idle", "done"}
  /\ pc' = [pc EXCEPT ![w] = "probe"]
  /\ feed' = [feed EXCEPT ![w] = LiveFeed]
  /\ granted' = [granted EXCEPT ![w] = FALSE]
  /\ outcome' = [outcome EXCEPT ![w] = "none"]
  /\ ops' = [ops EXCEPT ![w] = NoOps]
  /\ rivals' = [v \in Workers |-> IF v = w THEN {} ELSE rivals[v] \ {w}]
  /\ UNCHANGED <<clock, ticks, feedLM, history, locks, lastEvent, last_mod_utc,
                 now_utc, doc, lock_now, started>>

LiveWrap(w) ==
  /\ ~Recorded
  /\ Ghost(w)
  /\ UNCHANGED <<fails, runVars, normVars>>

\* The advance of the clock between two readings: just more than the TTL.
LiveTickSteps == {TTL + 1}

LiveClock ==
  /\ ~Recorded
  /\ \E d \in LiveTickSteps : LiveTick(d)
  /\ UNCHANGED <<blocked, writes, fails, runVars, normVars>>

\* The steps of a pool thread other than the probe.
LiveStep(w) ==
  /\ \/ LiveStart(w) \/ ReadClock(w) \/ FindDoc(w) \/ LockNow(w)
     \/ Purge(w) \/ Upsert(w) \/ Write(w)
  /\ LiveWrap(w)

\* The server answers the probe with a date.
LiveProbeOk(w) == Probe(w) /\ LiveWrap(w) /\ last_mod_utc'[w] # None

LiveNext ==
  \/ LiveClock
  \/ /\ ~Recorded
     /\ FeedRefresh(LiveFeed)
     /\ UNCHANGED <<blocked, writes, fails, runVars, normVars>>
  \/ \E w \in Workers : LiveStart(w) /\ LiveWrap(w)
  \/ \E w \in Workers : Probe(w) /\ LiveWrap(w)
  \/ \E w \in Workers : ReadClock(w) /\ LiveWrap(w)
  \/ \E w \in Workers : FindDoc(w) /\ LiveWrap(w)
  \/ \E w \in Workers : LockNow(w) /\ LiveWrap(w)
  \/ \E w \in Workers : Purge(w) /\ LiveWrap(w)
  \/ \E w \in Workers : Upsert(w) /\ LiveWrap(w)
  \/ \E w \in Workers : Write(w) /\ LiveWrap(w)
  \/ \E w \in Workers :
       ~Recorded /\ Fail(w) /\ Ghost(w) /\ UNCHANGED <<runVars, normVars>>

\* Pool threads run, the driver is started again, the server keeps
\* answering the probe and time advances; store failures are finitely many.
LiveFair ==
  /\ \A w \in Workers : WF_vars(LiveStep(w))
  /\ \A w \in Workers : SF_vars(LiveProbeOk(w))
  /\ SF_vars(LiveClock)

LiveSpec == Init /\ [][LiveNext]_vars /\ LiveFair

\* ------------------------------------------------------ helpers of the claims
RECURSIVE IsSubseq(_, _)
IsSubseq(s, t) ==
  IF Len(s) = 0 THEN TRUE
  ELSE IF Len(t) = 0 THEN FALSE
  ELSE IF Head(s) = Head(t) THEN IsSubseq(Tail(s), Tail(t))
  ELSE IsSubseq(s, Tail(t))

RECURSIVE SumCounts(_)
SumCounts(log) ==
  IF Len(log) = 0 THEN 0 ELSE Head(log).count + SumCounts(Tail(log))

EventsOf(r) ==
  UNION {{r.refresh_log[i].times[j] : j \in 1..Len(r.refresh_log[i].times)} :
           i \in 1..Len(r.refresh_log)}

\* Every event of the old log is in the new log, in its bucket and in order.
EventsKept(old, new) ==
  \A i \in 1..Len(old) :
    \E j \in 1..Len(new) :
      new[j].date = old[i].date /\ IsSubseq(old[i].times, new[j].times)

\* The task of worker w has a stored record whose timestamp, read back, is the
\* instant the probe returned.
SameInstant(w) ==
  /\ doc[w] # None
  /\ last_mod_utc[w] # None
  /\ doc[w][1].xml_last_updated_utc.t = last_mod_utc[w][1].t

\* ------------------------------------------------------------------ claims

\* C1: for every feed id, at every instant, at most one worker is between a
\* successful acquire_lock for that id and the end of its history write.
C1_OneWriterPerFeed ==
  \A w1 \in Workers, w2 \in Workers :
    (w1 # w2 /\ pc[w1] = "write" /\ pc[w2] = "write") => feed[w1] # feed[w2]

\* C2: two callers whose acquire_lock calls for the same employerId overlap
\* are never both given the lease (never both return true).
C2_NoDoubleGrant ==
  \A w \in Workers : \A v \in rivals[w] : ~(granted[w] /\ granted[v])

\* C3: a write to a feed's record never records the Last-Modified value that
\* is already the record's latest one: one refresh is recorded at most once.
C3_RefreshRecordedOnce ==
  [][\A w \in Workers :
       (pc[w] = "write" /\ outcome'[w] = "updated" /\ feed[w] \in DOMAIN history)
       => history'[feed[w]].xml_last_updated_utc
            # history[feed[w]].xml_last_updated_utc]_vars

\* C4: the history is append-only: every step keeps every stored event, with
\* its fields, in its day bucket and in the same relative order.
C4_AppendOnly ==
  [][\A f \in DOMAIN history :
       /\ f \in DOMAIN history'
       /\ EventsKept(history[f].refresh_log, history'[f].refresh_log)]_vars

\* C5: every history write leaves refresh_count exactly one greater than the
\* value stored just before the write (0 when there was no record).
C5_CountIncrements ==
  [][\A w \in Workers :
       (pc[w] = "write" /\ outcome'[w] \in {"inserted", "updated"}
          /\ feed[w] \in DOMAIN history')
       => history'[feed[w]].refresh_count
            = (IF feed[w] \in DOMAIN history
               THEN history[feed[w]].refresh_count ELSE 0) + 1]_vars

\* C6: in every reachable state each stored record's refresh_count equals the
\* sum of the counts of its day buckets.
C6_CountIsSumOfBuckets ==
  \A f \in DOMAIN history :
    history[f].refresh_count = SumCounts(history[f].refresh_log)

\* C6 witness: a record that an update has extended to two day buckets.
C6_Witness ==
  \E f \in DOMAIN history :
    /\ history[f].refresh_count >= 2
    /\ Len(history[f].refresh_log) >= 2

\* C7: in every reachable state each stored record's xml_last_updated_utc is
\* that of the most recently appended event, which the record holds.
C7_LastUpdatedIsLatestEvent ==
  \A f \in DOMAIN history :
    /\ f \in DOMAIN lastEvent
    /\ lastEvent[f] \in EventsOf(history[f])
    /\ history[f].xml_last_updated_utc = lastEvent[f].xml_last_updated_utc

\* C7 witness: a record holding events of two different Last-Modified values.
C7_Witness ==
  \E f \in DOMAIN history :
    \E e1 \in EventsOf(history[f]), e2 \in EventsOf(history[f]) :
      e1.xml_last_updated_utc # e2.xml_last_updated_utc

\* C8: when the stored timestamp read back denotes the probed instant, the
\* task calls acquire_lock zero times and writes nothing.
C8_UnchangedIsNoOp ==
  \A w \in Workers :
    SameInstant(w) =>
      /\ ops[w].acquire = 0 /\ ops[w].purge = 0 /\ ops[w].upsert = 0
      /\ ops[w].write = 0

\* C9: a task whose probe gave no usable Last-Modified value ends at once,
\* having performed no store operation at all (no read, purge, lease or write).
C9_UnavailableIsNoOp ==
  \A w \in Workers :
    /\ (pc[w] \notin {"idle", "probe", "done"}) => last_mod_utc[w] # None
    /\ (outcome[w] = "unavailable") =>
         (pc[w] = "done" /\ ops[w] = [NoOps EXCEPT !.probe = 1])

\* C9 witness: a task ended as unavailable while a lease and a record exist.
C9_Witness ==
  \E w \in Workers :
    /\ outcome[w] = "unavailable"
    /\ feed[w] \in DOMAIN locks
    /\ feed[w] \in DOMAIN history

C11_NoGrantWhileLeaseInForce ==
  \A w \in Workers : blocked[w] => ~granted[w]


\* C13: the insert of a first observation stores a record with refresh_count
\* 1, the probed timestamp as xml_last_updated_utc, and a refresh_log of
\* exactly one bucket, dated the UTC date of the task's clock reading, with
\* count 1 and exactly one event; the id had no record before.
C13_FirstObservationRecord ==
  [][\A w \in Workers :
       (pc[w] = "write" /\ outcome'[w] = "inserted") =>
         /\ feed[w] \notin DOMAIN history
         /\ LET r == history'[feed[w]]
            IN /\ r.refresh_count = 1
               /\ r.xml_last_updated_utc = Encode(last_mod_utc[w][1])
               /\ Len(r.refresh_log) = 1
               /\ r.refresh_log[1].date = DateOf(now_utc[w])
               /\ r.refresh_log[1].count = 1
               /\ Len(r.refresh_log[1].times) = 1]_vars

\* A first observation was recorded a day after the model's start.
C13_Witness ==
  \E w \in Workers :
    /\ outcome[w] = "inserted"
    /\ feed[w] \in DOMAIN history
    /\ history[feed[w]].refresh_count = 1
    /\ history[feed[w]].refresh_log[1].date = 1

\* C15: the refresh_log of every stored record is well-formed: the bucket
\* dates are pairwise distinct and ascending, and the count of every bucket
\* is the length of its times list.
C15_RefreshLogWellFormed ==
  \A f \in DOMAIN history :
    LET log == history[f].refresh_log
    IN \A i, j \in 1..Len(log) :
         /\ i < j => log[i].date < log[j].date
         /\ log[i].count = Len(log[i].times)

\* C20: a refused acquire_lock leaves the lock collection as it was, and no
\* step removes or rewrites a lease whose timestamp is within the last 10
\* minutes.
C20_RefusalLeavesLeases ==
  [][/\ \A w \in Workers :
          (pc[w] = "upsert" /\ outcome'[w] = "skipped") => locks' = locks
     /\ \A g \in DOMAIN locks :
          locks[g].timestamp >= clock - TTL =>
            g \in DOMAIN locks' /\ locks'[g] = locks[g]]_vars

\* A call was refused at a later minute than the lease it met was taken.
C20_Witness ==
  \E w \in Workers :
    /\ outcome[w] = "skipped"
    /\ feed[w] \in DOMAIN locks
    /\ locks[feed[w]].timestamp < clock


\* C14: when the recordings of a feed are executed one after another, the
\* record's refresh_count is the number of recordings made (the first
\* observation and the N changes after it, N + 1) and the sum of its bucket
\* counts is refresh_count.
C14_SequentialCount ==
  \A f \in DOMAIN history :
    /\ history[f].refresh_count = writes[f]
    /\ SumCounts(history[f].refresh_log) = history[f].refresh_count

\* A first observation and one change with another timestamp on a later
\* date have been recorded.
C14_Witness ==
  \E f \in DOMAIN history :
    LET log == history[f].refresh_log
    IN /\ writes[f] = 2
       /\ Len(log) = 2
       /\ log[1].date < log[2].date
       /\ log[1].times[1].xml_last_updated_utc # log[2].times[1].xml_last_updated_utc


\* C16: a failure in one feed's task (a failed probe, a store call that
\* raises, a rejected duplicate insert) ends that task only: the step leaves
\* the stores, the driver and every other task as they were, the driver
\* never ends with an exception once a task was submitted, and when it
\* exits every submitted feed has been processed to its end.
C16_FailureIsLocal ==
  [][/\ \A w \in Workers :
          (outcome[w] = "none" /\ outcome'[w] \in {"error", "unavailable"}) =>
            /\ history' = history /\ locks' = locks
            /\ runPc' = runPc /\ queue' = queue /\ catalog' = catalog
            /\ \A v \in Workers \ {w} :
                 /\ pc'[v] = pc[v] /\ outcome'[v] = outcome[v]
                 /\ last_mod_utc'[v] = last_mod_utc[v] /\ doc'[v] = doc[v]
                 /\ now_utc'[v] = now_utc[v] /\ lock_now'[v] = lock_now[v]
     /\ runPc' = "crash" => started' = 0
     /\ runPc' = "exit" =>
          \A i \in 1..Len(catalog') :
            runlog'[i].starts = 1 /\ runlog'[i].outcome # "none"]_vars

\* A run has exited in which one task ended with an exception and another
\* stored its history write.
C16_Witness ==
  /\ runPc = "exit"
  /\ \E i, j \in DOMAIN runlog :
       /\ runlog[i].outcome = "error"
       /\ runlog[j].outcome \in {"inserted", "updated"}

\* C17: when MONGO_URI is not set, or the store cannot be reached (the
\* catalog cannot be loaded), the run ends without processing any feed: no
\* task is submitted or started, no probe, no lease, no history record.
C17_FatalErrorProcessesNothing ==
  (~env.mongo_uri \/ ~env.reachable) =>
    /\ runPc \in {"start", "load", "nouri", "crash"}
    /\ started = 0 /\ submitted = 0 /\ queue = {}
    /\ history = << >> /\ locks = << >>
    /\ \A w \in Workers : pc[w] = "idle" /\ ops[w] = NoOps

\* main() ended with the exception of the catalog load.
C17_Witness ==
  runPc = "crash" /\ env.mongo_uri /\ ~env.reachable

\* C18: a run processes each feed of its catalog exactly once, without
\* retry: per catalog entry at most one task, one probe, one acquire_lock
\* call and one history write; the run ends exactly when every task has
\* ended, and until then some step can always be taken.
C18_OnePassNoRetry ==
  /\ \A i \in DOMAIN runlog :
       /\ runlog[i].starts <= 1
       /\ runlog[i].ops.probe <= 1
       /\ runlog[i].ops.acquire <= 1
       /\ runlog[i].ops.write <= 1
  /\ runPc = "exit" =>
       /\ \A i \in DOMAIN runlog :
            runlog[i].starts = 1 /\ runlog[i].outcome # "none"
       /\ \A w \in Workers : pc[w] \in {"idle", "done"}
  /\ RunDone <=> ~ENABLED RunNext

\* A run over a full catalog has exited, every feed with one history write.
C18_Witness ==
  /\ runPc = "exit"
  /\ Len(catalog) = NumFeeds
  /\ \A i \in DOMAIN runlog : runlog[i].ops.write = 1


C12_DroppedChangeRecorded ==
  (\E w \in Workers : outcome[w] \in {"skipped", "error"} /\ ~Recorded)
    ~> Recorded

\* A task was refused the lease while the record holds another value than
\* the feed reports.
C12_Witness ==
  /\ LiveFeed \in DOMAIN history
  /\ history[LiveFeed].xml_last_updated_utc # feedLM[LiveFeed]
  /\ \E w \in Workers : outcome[w] = "skipped" /\ feed[w] = LiveFeed


\* C21: at most one history record is ever created for a feed id.  A record
\* is inserted only for an id that has none; an insert attempted for an id
\* whose record exists by now is rejected and leaves the whole collection as
\* it was; and a stored record is never removed.
C21_OneRecordPerFeed ==
  [][/\ DOMAIN history \subseteq DOMAIN history'
     /\ \A w \in Workers :
          (pc[w] = "write" /\ pc'[w] = "done" /\ doc[w] = None) =>
            IF feed[w] \in DOMAIN history
            THEN history' = history /\ outcome'[w] = "error"
            ELSE /\ outcome'[w] = "inserted" =>
                      DOMAIN history' = DOMAIN history \cup {feed[w]}
                 /\ \A g \in DOMAIN history : history'[g] = history[g]]_vars

\* A worker that had found no record was granted the lease after the
\* record was inserted by another, and its insert was rejected.
C21_Witness ==
  \E w \in Workers :
    /\ outcome[w] = "error"
    /\ granted[w]
    /\ ops[w].write = 1
    /\ feed[w] \in DOMAIN history
    /\ history[feed[w]].refresh_count = 1

====
